---- MODULE Spec2Model ----
(***************************************************************************)
(* Model of aider/versioncheck.py (the version check against the package   *)
(* registry) and aider/voice.py (the Voice recorder: capture, WAV write,   *)
(* transcription).                                                         *)
(*                                                                         *)
(* Text is modelled as a sequence of one-character strings, so that        *)
(* parsing, substring tests and concatenation are computed, not assumed.   *)
(* A literal piece of text that is never inspected is one element.         *)
(***************************************************************************)
EXTENDS Integers, Sequences, FiniteSets, TLC

VARIABLES
    \* ---- versioncheck.py ----
    vc_pc,            \* position of the caller inside versioncheck.py
    package_name,     \* argument of check_for_updates
    current_version,  \* argument of check_for_updates
    response,         \* what the registry answered to requests.get(url)
    latest_version,   \* value returned by fetch_latest_version
    update_available, \* value returned by is_update_available
    vc_exc,           \* exception in flight inside versioncheck.py
    printed,          \* the calls made to print_cmd, each a sequence of lines
    vc_result,        \* outcome of check_for_updates
    py,               \* sys.executable as read by construct_upgrade_command
    upgrade_command,  \* value returned by construct_upgrade_command
    \* ---- voice.py: the Voice object ----
    max_rms,          \* self.max_rms, in thousandths
    min_rms,          \* self.min_rms, in thousandths
    pct,              \* self.pct, as the fraction num / den
    q,                \* self.q, the blocks put and not yet got
    \* ---- voice.py: the call of record_and_transcribe ----
    v_pc,             \* position of the foreground thread
    filename,         \* the name tempfile.mktemp returned
    stream,           \* the sounddevice InputStream: "open" or "closed"
    v_result,         \* outcome of record_and_transcribe
    bar,              \* the bar of the text get_prompt returned last
    \* ---- voice.py: the world around the Voice object ----
    fs,               \* the files, by name
    transcription_calls, \* the calls litellm.transcription received
    \* ---- history, read by the properties only ----
    session,          \* number of calls of record_and_transcribe so far
    nblocks,          \* number of blocks the backend delivered so far
    captured,         \* the blocks the callback put during this session
    amplitudes,       \* the rms the callback computed for each of them
    fault,            \* where and what was raised in this session
    foreign           \* the names of the files another process created

vc_vars == <<vc_pc, package_name, current_version, response, latest_version,
             update_available, vc_exc, printed, vc_result, py, upgrade_command>>

voice_vars == <<max_rms, min_rms, pct, q, v_pc, filename, stream, v_result, bar,
                fs, transcription_calls, session, nblocks, captured, amplitudes,
                fault, foreign>>

vars == <<vc_vars, voice_vars>>

--------------------------------------------------------------------------
(* Bounds *)

MaxVersionLen == 3
MaxPathLen == 5

\* Characters a version string is drawn from: two digits, the separator and
\* the letter "a", which is the pre-release marker of the version grammar
\* when it follows a release and makes the string malformed elsewhere.
Digits == {"0", "1"}
VersionChars == Digits \cup {".", "a"}
PathChars == {"p", "i", "x"}

SeqsUpTo(S, n) == UNION {[1..k -> S] : k \in 0..n}

VersionStrings == SeqsUpTo(VersionChars, MaxVersionLen)
ExePaths == SeqsUpTo(PathChars, MaxPathLen)
\* sys.executable of the process that runs check_for_updates
ProcessExePaths == {<<"p", "i", "p", "x">>, <<"p", "i", "p">>}
PackageNames == {"aider-chat", "other-package"}

NoText == <<>>
NoExc == [type |-> "none", cause |-> "none"]
Exc(t, c) == [type |-> t, cause |-> c]

--------------------------------------------------------------------------
(* packaging.version.parse, as called by parse_version *)

\* Index of the first "a" of s, 0 when there is none.
FirstA(s) ==
    IF \E i \in 1..Len(s) : s[i] = "a"
    THEN CHOOSE i \in 1..Len(s) : s[i] = "a" /\ \A j \in 1..(i - 1) : s[j] # "a"
    ELSE 0

AllDigits(s) == \A i \in 1..Len(s) : s[i] \in Digits

\* str.split("."): the pieces of s between the dots.
RECURSIVE SplitDots(_)
SplitDots(s) ==
    IF \E i \in 1..Len(s) : s[i] = "."
    THEN LET i == CHOOSE k \in 1..Len(s) : s[k] = "." /\ \A j \in 1..(k - 1) : s[j] # "."
         IN <<SubSeq(s, 1, i - 1)>> \o SplitDots(SubSeq(s, i + 1, Len(s)))
    ELSE <<s>>

\* [0-9]+(?:\.[0-9]+)*
IsRelease(s) ==
    LET parts == SplitDots(s)
    IN \A i \in 1..Len(parts) : parts[i] # <<>> /\ AllDigits(parts[i])

\* The text before the pre-release letter, without the one optional separator.
ReleaseText(s) ==
    LET a == FirstA(s)
        head == IF a = 0 THEN s ELSE SubSeq(s, 1, a - 1)
    IN IF a # 0 /\ Len(head) > 0 /\ head[Len(head)] = "."
       THEN SubSeq(head, 1, Len(head) - 1)
       ELSE head

\* The text after the pre-release letter, without the one optional separator.
PreNumberText(s) ==
    LET a == FirstA(s)
        tail == SubSeq(s, a + 1, Len(s))
    IN IF Len(tail) > 0 /\ tail[1] = "." THEN SubSeq(tail, 2, Len(tail)) ELSE tail

\* The version grammar (VERSION_PATTERN) restricted to VersionChars:
\*   release ( [.]? a [.]? [0-9]* )?
MatchesVersionPattern(s) ==
    /\ IsRelease(ReleaseText(s))
    /\ FirstA(s) # 0 => AllDigits(PreNumberText(s))

DigitValue(c) == IF c = "0" THEN 0 ELSE 1

\* int(text) of a run of digits; int("") is not called, the grammar gives 0.
RECURSIVE ParseInt(_)
ParseInt(d) ==
    IF d = <<>> THEN 0
    ELSE 10 * ParseInt(SubSeq(d, 1, Len(d) - 1)) + DigitValue(d[Len(d)])

\* Mutant of StripTrailingZeros: the release is compared as written.
StripTrailingZeros_Kept(t) == t

RECURSIVE StripTrailingZeros(_)
StripTrailingZeros(t) ==
    IF t # <<>> /\ t[Len(t)] = 0
    THEN StripTrailingZeros(SubSeq(t, 1, Len(t) - 1))
    ELSE t

Infinity == [inf |-> TRUE, n |-> 0]
PreA(n) == [inf |-> FALSE, n |-> n]

\* Version._key (_cmpkey): the release without its trailing zeros, then the
\* pre-release, which is Infinity for a final release.
cmpkey(s) ==
    LET parts == SplitDots(ReleaseText(s))
    IN [release |-> StripTrailingZeros([i \in 1..Len(parts) |-> ParseInt(parts[i])]),
        pre |-> IF FirstA(s) = 0 THEN Infinity ELSE PreA(ParseInt(PreNumberText(s)))]

\* Python's tuple comparison t > u of two tuples of ints.
TupleGreater(t, u) ==
    \E i \in 1..Len(t) :
        /\ \A j \in 1..(i - 1) : j <= Len(u) /\ t[j] = u[j]
        /\ (i > Len(u) \/ t[i] > u[i])

PreGreater(p1, p2) ==
    \/ p1.inf /\ ~p2.inf
    \/ ~p1.inf /\ ~p2.inf /\ p1.n > p2.n

\* Mutant of VersionGreater: >= in place of >.
VersionGreater_OrEqual(k1, k2) ==
    \/ TupleGreater(k1.release, k2.release)
    \/ k1.release = k2.release /\ ~PreGreater(k2.pre, k1.pre)

\* Version.__gt__: the keys compared as tuples.
VersionGreater(k1, k2) ==
    \/ TupleGreater(k1.release, k2.release)
    \/ k1.release = k2.release /\ PreGreater(k1.pre, k2.pre)

NoVersion == [release |-> <<>>, pre |-> Infinity]

\* parse_version: the parsed version, or ValueError for InvalidVersion.
parse_version(version) ==
    IF MatchesVersionPattern(version)
    THEN [exc |-> NoExc, value |-> cmpkey(version)]
    ELSE [exc |-> Exc("ValueError", "InvalidVersion"), value |-> NoVersion]

\* Mutant of is_update_available: an unparseable current version counts
\* as "no update" instead of failing.
is_update_available_CurrentUnchecked(latest, current) ==
    LET l == parse_version(latest)
        c == parse_version(current)
    IN IF l.exc # NoExc THEN [exc |-> l.exc, value |-> FALSE]
       ELSE IF c.exc # NoExc THEN [exc |-> NoExc, value |-> FALSE]
       ELSE [exc |-> NoExc, value |-> VersionGreater(l.value, c.value)]

\* is_update_available: latest is parsed first, then current, then compared.
is_update_available(latest, current) ==
    LET l == parse_version(latest)
        c == parse_version(current)
    IN IF l.exc # NoExc THEN [exc |-> l.exc, value |-> FALSE]
       ELSE IF c.exc # NoExc THEN [exc |-> c.exc, value |-> FALSE]
       ELSE [exc |-> NoExc, value |-> VersionGreater(l.value, c.value)]


--------------------------------------------------------------------------
(* versioncheck.py: the registry and fetch_latest_version *)

\* What requests.get(url) can give: the request itself erroring, or a
\* response with a status code and a JSON body.  A body is a JSON object: it
\* has info.version, or it has info without version, or it has no info.
Bodies ==
    {[info |-> [version |-> v]] : v \in VersionStrings}
        \cup {[info |-> [name |-> NoText]], [message |-> NoText]}

Responses ==
    {[kind |-> "ConnectionError", status_code |-> 0, body |-> [message |-> NoText]]}
        \cup {[kind |-> "response", status_code |-> 200, body |-> b] : b \in Bodies}
        \cup {[kind |-> "response", status_code |-> s, body |-> [message |-> NoText]] :
                s \in {404, 500}}

\* response.raise_for_status(): HTTPError for 4xx and 5xx.
RaisesForStatus(r) == r.status_code >= 400 /\ r.status_code < 600

HasInfoVersion(b) == "info" \in DOMAIN b /\ "version" \in DOMAIN b.info

\* fetch_latest_version: only requests.RequestException is turned into
\* RuntimeError; the KeyError of response.json()["info"]["version"] is not.
fetch_latest_version(r) ==
    IF r.kind = "ConnectionError"
    THEN [exc |-> Exc("RuntimeError", "ConnectionError"), value |-> NoText]
    ELSE IF RaisesForStatus(r)
    THEN [exc |-> Exc("RuntimeError", "HTTPError"), value |-> NoText]
    ELSE IF ~HasInfoVersion(r.body)
    THEN [exc |-> Exc("KeyError", "none"), value |-> NoText]
    ELSE [exc |-> NoExc, value |-> r.body.info.version]

--------------------------------------------------------------------------
(* versioncheck.py: the upgrade notice *)

PIPX_MARKER == <<"p", "i", "p", "x">>
PIPX_COMMAND == <<"pipx upgrade aider-chat">>
PIP_SUFFIX == <<" -m pip install --upgrade aider-chat">>

IsPrefix(sub, s) == Len(sub) <= Len(s) /\ SubSeq(s, 1, Len(sub)) = sub

\* Mutant of Contains: s.startswith(sub) in place of sub in s.
Contains_StartsWith(s, sub) == IsPrefix(sub, s)

\* Python's `sub in s` on text.
RECURSIVE Contains(_, _)
Contains(s, sub) ==
    IF IsPrefix(sub, s) THEN TRUE
    ELSE IF s = <<>> THEN FALSE
    ELSE Contains(Tail(s), sub)

construct_upgrade_command(exe) ==
    IF Contains(exe, PIPX_MARKER) THEN PIPX_COMMAND ELSE exe \o PIP_SUFFIX

\* The argument print_update_instructions gives to print_cmd, as its lines.
UpdateMessage(latest, command) ==
    << <<"Newer version v">> \o latest \o <<" is available. To upgrade, run:">>,
       command >>

\* The argument the handler gives to print_cmd: the exception, one line.
ErrorMessage(exc) == << <<exc.type, exc.cause>> >>

\* Mutant of CaughtByCheckForUpdates: except RuntimeError alone.
CaughtByCheckForUpdates_RuntimeErrorOnly(exc) == exc.type = "RuntimeError"

\* except (RuntimeError, ValueError)
CaughtByCheckForUpdates(exc) == exc.type \in {"RuntimeError", "ValueError"}

--------------------------------------------------------------------------
(* versioncheck.py: the calls *)

InitVersion ==
    /\ vc_pc = "idle"
    /\ package_name = "none"
    /\ current_version = NoText
    /\ response = [kind |-> "none", status_code |-> 0, body |-> [message |-> NoText]]
    /\ latest_version = NoText
    /\ update_available = "unset"
    /\ vc_exc = NoExc
    /\ printed = <<>>
    /\ vc_result = "none"
    /\ py = NoText
    /\ upgrade_command = NoText

\* check_for_updates(package_name, current_version, print_cmd) is entered.
CallCheckForUpdates ==
    /\ vc_pc = "idle"
    /\ UNCHANGED voice_vars
    /\ \E pkg \in PackageNames, cur \in VersionStrings :
          /\ package_name' = pkg
          /\ current_version' = cur
    /\ vc_pc' = "fetch"
    /\ UNCHANGED <<response, latest_version, update_available, vc_exc, printed,
                   vc_result, py, upgrade_command>>

\* latest_version = fetch_latest_version(package_name)
FetchLatestVersion ==
    /\ vc_pc = "fetch"
    /\ UNCHANGED voice_vars
    /\ \E r \in Responses :
          LET got == fetch_latest_version(r)
          IN /\ response' = r
             /\ latest_version' = got.value
             /\ vc_exc' = got.exc
             /\ vc_pc' = IF got.exc = NoExc THEN "compare" ELSE "except"
    /\ UNCHANGED <<package_name, current_version, update_available, printed,
                   vc_result, py, upgrade_command>>

\* if is_update_available(latest_version, current_version):
IsUpdateAvailable ==
    /\ vc_pc = "compare"
    /\ UNCHANGED voice_vars
    /\ LET got == is_update_available(latest_version, current_version)
       IN /\ vc_exc' = got.exc
          /\ update_available' =
                IF got.exc # NoExc THEN "unset"
                ELSE IF got.value THEN "True" ELSE "False"
          /\ vc_pc' = IF got.exc # NoExc THEN "except"
                      ELSE IF got.value THEN "print" ELSE "return_false"
    /\ UNCHANGED <<package_name, current_version, response, latest_version,
                   printed, vc_result, py, upgrade_command>>

\* print_update_instructions(latest_version, print_cmd); return True
PrintUpdateInstructions ==
    /\ vc_pc = "print"
    /\ UNCHANGED voice_vars
    /\ \E exe \in ProcessExePaths :
          /\ py' = exe
          /\ upgrade_command' = construct_upgrade_command(exe)
          /\ printed' = Append(printed,
                               UpdateMessage(latest_version, construct_upgrade_command(exe)))
    /\ vc_result' = "True"
    /\ vc_pc' = "done"
    /\ UNCHANGED <<package_name, current_version, response, latest_version,
                   update_available, vc_exc>>

\* return False (no update)
ReturnFalse ==
    /\ vc_pc = "return_false"
    /\ UNCHANGED voice_vars
    /\ vc_result' = "False"
    /\ vc_pc' = "done"
    /\ UNCHANGED <<package_name, current_version, response, latest_version,
                   update_available, vc_exc, printed, py, upgrade_command>>

\* except (RuntimeError, ValueError) as err: print_cmd(err); return False
ExceptHandler ==
    /\ vc_pc = "except"
    /\ UNCHANGED voice_vars
    /\ CaughtByCheckForUpdates(vc_exc)
    /\ printed' = Append(printed, ErrorMessage(vc_exc))
    /\ vc_exc' = NoExc
    /\ vc_result' = "False"
    /\ vc_pc' = "done"
    /\ UNCHANGED <<package_name, current_version, response, latest_version,
                   update_available, py, upgrade_command>>

\* Any other exception leaves check_for_updates and reaches its caller.
Propagate ==
    /\ vc_pc = "except"
    /\ UNCHANGED voice_vars
    /\ ~CaughtByCheckForUpdates(vc_exc)
    /\ vc_result' = "raised"
    /\ vc_pc' = "done"
    /\ UNCHANGED <<package_name, current_version, response, latest_version,
                   update_available, vc_exc, printed, py, upgrade_command>>

\* construct_upgrade_command() called on its own, under any sys.executable.
CallConstructUpgradeCommand ==
    /\ vc_pc = "idle"
    /\ UNCHANGED voice_vars
    /\ \E exe \in ExePaths :
          /\ py' = exe
          /\ upgrade_command' = construct_upgrade_command(exe)
    /\ vc_pc' = "done_command"
    /\ UNCHANGED <<package_name, current_version, response, latest_version,
                   update_available, vc_exc, printed, vc_result>>

NextVersion ==
    \/ CallCheckForUpdates
    \/ FetchLatestVersion
    \/ IsUpdateAvailable
    \/ PrintUpdateInstructions
    \/ ReturnFalse
    \/ ExceptHandler
    \/ Propagate
    \/ CallConstructUpgradeCommand

--------------------------------------------------------------------------
(* voice.py: the Voice object *)

MaxSessions == 2
MaxBlocks == 3

\* Amplitudes are counted in thousandths: 1 is 0.001.
INITIAL_MAX_RMS == 0
INITIAL_MIN_RMS == 100000000
EPSILON == 1
THRESHOLD == 150
NUM == 10
SAMPLE_RATE == 16000
CHANNELS == 1

\* np.sqrt(np.mean(indata**2)) of a block that is empty or holds a sample
\* that is not a number: nan.  Every amplitude that is a number is >= 0.
NAN == -1

\* The root-mean-square amplitudes a block can have, in thousandths.
RmsValues == {0, 1, 150, 1000}
\* The names tempfile.mktemp can return.
FileNames == 1..MaxSessions
\* transcript.text
Texts == {"hello", "world"}

\* Python's max(a, b) and min(a, b): b only when b > a (b < a), a comparison
\* that is false when b is nan.
Max(a, b) == IF b # NAN /\ b > a THEN b ELSE a
Min(a, b) == IF b # NAN /\ b < a THEN b ELSE a

\* self.pct as a fraction; nan is the fraction 0 / 0.
PctNaN == [num |-> 0, den |-> 0]
Neutral == [num |-> 1, den |-> 2]
isnan(p) == p.den = 0

\* callback: (rms - self.min_rms) / rng if rng > 0.001 else 0.5
level(rms, lo, rng) ==
    IF rng > EPSILON
    THEN IF rms = NAN THEN PctNaN ELSE [num |-> rms - lo, den |-> rng]
    ELSE Neutral

\* c * n for a one-character string c: empty when n <= 0.
Repeat(c, n) == [i \in 1..n |-> c]

\* Mutant of level_segments: the threshold is not consulted.
level_segments_NoThreshold(p) ==
    IF ~isnan(p) THEN (p.num * 10) \div p.den ELSE 0

\* get_prompt: cnt = int(self.pct * 10) if not np.isnan(self.pct) and
\* self.pct >= self.threshold else 0
level_segments(p) ==
    IF ~isnan(p) /\ p.num * 1000 >= THRESHOLD * p.den
    THEN (p.num * 10) \div p.den
    ELSE 0

\* get_prompt: bar = light * cnt + full * (num - cnt), shown as bar[:num],
\* where light is the light-shade character and full the full-block character.
get_prompt(p) ==
    LET cnt == level_segments(p)
        whole == Repeat("light", cnt) \o Repeat("full", NUM - cnt)
    IN SubSeq(whole, 1, IF Len(whole) < NUM THEN Len(whole) ELSE NUM)

NoFile == [exists |-> FALSE, frames |-> <<>>, samplerate |-> 0, channels |-> 0]
\* A file some other process created: not the recorder's format.
ForeignFile == [exists |-> TRUE, frames |-> <<>>, samplerate |-> 44100, channels |-> 2]
NoFault == [site |-> "none", type |-> "none"]
Pending == [kind |-> "pending", text |-> "", exc |-> NoExc]
ReturnedNone == [kind |-> "None", text |-> "", exc |-> NoExc]
ReturnedText(t) == [kind |-> "text", text |-> t, exc |-> NoExc]
Raised(e) == [kind |-> "raised", text |-> "", exc |-> e]

\* KeyboardInterrupt derives from BaseException, not from Exception.
IsException(e) == e.type # "KeyboardInterrupt"

\* _write_audio_to_file: except Exception as e: raise SoundDeviceError(...)
write_audio_handler(e) ==
    IF IsException(e) THEN Exc("SoundDeviceError", e.type) ELSE e

\* _transcribe_audio: except Exception as e: raise SoundDeviceError(...)
transcribe_handler(e) ==
    IF IsException(e) THEN Exc("SoundDeviceError", e.type) ELSE e

\* Mutant of record_and_transcribe_handler: no except clause.
record_and_transcribe_handler_NoCatch(e) == Raised(e)

\* Mutant of record_and_transcribe_handler: except BaseException.
record_and_transcribe_handler_CatchAll(e) == ReturnedNone

\* record_and_transcribe: except KeyboardInterrupt: return None
record_and_transcribe_handler(e) ==
    IF e.type = "KeyboardInterrupt" THEN ReturnedNone ELSE Raised(e)

\* Voice.__init__, the sound device found.
InitVoice ==
    /\ max_rms = INITIAL_MAX_RMS
    /\ min_rms = INITIAL_MIN_RMS
    /\ pct = [num |-> 0, den |-> 1]
    /\ q = <<>>
    /\ v_pc = "idle"
    /\ filename = 0
    /\ stream = "closed"
    /\ v_result = Pending
    /\ bar = <<>>
    /\ fs = [f \in FileNames |-> NoFile]
    /\ transcription_calls = <<>>
    /\ session = 0
    /\ nblocks = 0
    /\ captured = <<>>
    /\ amplitudes = <<>>
    /\ fault = NoFault
    /\ foreign = {}

\* record_and_transcribe is called: raw_record_and_transcribe takes a name
\* from tempfile.mktemp (one no file has; the names being alike, the first
\* such name) and enters the InputStream.
RecordAndTranscribe ==
    /\ v_pc \in {"idle", "returned"}
    /\ UNCHANGED vc_vars
    /\ UNCHANGED <<bar, foreign>>
    /\ amplitudes' = <<>>
    /\ session < MaxSessions
    /\ \E f \in FileNames :
          /\ ~fs[f].exists
          /\ \A g \in FileNames : g < f => fs[g].exists
          /\ filename' = f
    /\ session' = session + 1
    /\ stream' = "open"
    /\ v_pc' = "recording"
    /\ v_result' = Pending
    /\ captured' = <<>>
    /\ fault' = NoFault
    /\ UNCHANGED <<max_rms, min_rms, pct, q, fs, transcription_calls, nblocks>>

\* sd.InputStream(...) raises (no input device, or one that cannot record at
\* 16 kHz): nothing is recorded and the error reaches the caller as it is.
InputStreamFails ==
    /\ v_pc \in {"idle", "returned"}
    /\ UNCHANGED vc_vars
    /\ UNCHANGED <<bar, foreign>>
    /\ amplitudes' = <<>>
    /\ session < MaxSessions
    /\ \E f \in FileNames :
          /\ ~fs[f].exists
          /\ \A g \in FileNames : g < f => fs[g].exists
          /\ filename' = f
    /\ session' = session + 1
    /\ v_pc' = "returned"
    /\ v_result' = record_and_transcribe_handler(Exc("PortAudioError", "none"))
    /\ captured' = <<>>
    /\ fault' = [site |-> "starting", type |-> "PortAudioError"]
    /\ UNCHANGED <<max_rms, min_rms, pct, q, stream, fs, transcription_calls,
                   nblocks>>

\* prompt(self.get_prompt, refresh_interval=0.1) redraws: get_prompt reads
\* self.pct and returns the text with the bar.
GetPrompt ==
    /\ v_pc = "recording"
    /\ UNCHANGED vc_vars
    /\ UNCHANGED <<foreign, amplitudes>>
    /\ bar' = get_prompt(pct)
    /\ UNCHANGED <<max_rms, min_rms, pct, q, v_pc, filename, stream, v_result,
                   fs, transcription_calls, session, nblocks, captured, fault>>

\* The user ends the input (Ctrl-D): prompt raises EOFError, the with block
\* closes the stream, no except clause handles it.
PromptRaises ==
    /\ v_pc = "recording"
    /\ UNCHANGED vc_vars
    /\ UNCHANGED <<foreign, amplitudes>>
    /\ bar' = <<>>
    /\ stream' = "closed"
    /\ v_result' = record_and_transcribe_handler(Exc("EOFError", "none"))
    /\ fault' = [site |-> "recording", type |-> "EOFError"]
    /\ v_pc' = "returned"
    /\ UNCHANGED <<max_rms, min_rms, pct, q, filename, fs, transcription_calls,
                   session, nblocks, captured>>

\* Another process creates a file at the name tempfile.mktemp returned,
\* before sf.SoundFile opens it.
ExternalCreate ==
    /\ v_pc \in {"recording", "opening"}
    /\ UNCHANGED vc_vars
    /\ ~fs[filename].exists
    /\ fs' = [fs EXCEPT ![filename] = ForeignFile]
    /\ foreign' = foreign \cup {filename}
    /\ UNCHANGED amplitudes
    /\ UNCHANGED <<max_rms, min_rms, pct, q, v_pc, filename, stream, v_result,
                   bar, transcription_calls, session, nblocks, captured, fault>>

\* callback, run by the audio thread for one block while the stream is open.
\* The block is known by its number of arrival; of its samples the callback
\* reads the root mean square only.
Callback ==
    /\ stream = "open"
    /\ UNCHANGED vc_vars
    /\ UNCHANGED <<bar, foreign>>
    /\ nblocks < MaxBlocks
    /\ \E rms \in RmsValues \cup {NAN} :
          LET hi == Max(max_rms, rms)
              lo == Min(min_rms, rms)
              rng == hi - lo
              block == [id |-> nblocks + 1]
          IN /\ max_rms' = hi
             /\ min_rms' = lo
             /\ pct' = level(rms, lo, rng)
             /\ q' = Append(q, block)
             /\ captured' = Append(captured, block)
             /\ amplitudes' = Append(amplitudes, rms)
    /\ nblocks' = nblocks + 1
    /\ UNCHANGED <<v_pc, filename, stream, v_result, fs, transcription_calls,
                   session, fault>>

\* Mutant of StopRecording: the stream is not closed when prompt returns.
StopRecording_StreamLeftOpen ==
    /\ v_pc = "recording"
    /\ UNCHANGED vc_vars
    /\ UNCHANGED <<foreign, amplitudes>>
    /\ bar' = <<>>
    /\ v_pc' = "opening"
    /\ UNCHANGED <<max_rms, min_rms, pct, q, filename, stream, v_result, fs,
                   transcription_calls, session, nblocks, captured, fault>>

\* The user presses ENTER: prompt returns and the with block closes the stream.
StopRecording ==
    /\ v_pc = "recording"
    /\ UNCHANGED vc_vars
    /\ UNCHANGED <<foreign, amplitudes>>
    /\ bar' = <<>>
    /\ stream' = "closed"
    /\ v_pc' = "opening"
    /\ UNCHANGED <<max_rms, min_rms, pct, q, filename, v_result, fs,
                   transcription_calls, session, nblocks, captured, fault>>

\* Mutant of KeyboardInterrupt: the interrupt leaves the stream as it is.
KeyboardInterrupt_StreamLeftOpen ==
    /\ v_pc \in {"recording", "opening", "writing", "transcribing"}
    /\ UNCHANGED vc_vars
    /\ UNCHANGED <<foreign, amplitudes>>
    /\ bar' = <<>>
    /\ v_result' = ReturnedNone
    /\ fault' = [site |-> v_pc, type |-> "KeyboardInterrupt"]
    /\ q' \in (IF v_pc = "writing" /\ q # <<>> THEN {q, Tail(q)} ELSE {q})
    /\ v_pc' = "returned"
    /\ UNCHANGED <<max_rms, min_rms, pct, filename, stream, fs,
                   transcription_calls, session, nblocks, captured>>

\* KeyboardInterrupt in the foreground thread, wherever it is: the with
\* blocks close the stream or the file, the except Exception clauses let it
\* through, and record_and_transcribe handles it.  In the write loop it can
\* land after self.q.get() has removed a block and before file.write wrote it.
KeyboardInterrupt ==
    /\ v_pc \in {"recording", "opening", "writing", "transcribing"}
    /\ UNCHANGED vc_vars
    /\ UNCHANGED <<foreign, amplitudes>>
    /\ bar' = <<>>
    /\ LET e == Exc("KeyboardInterrupt", "none")
           raised == IF v_pc = "recording" THEN e
                     ELSE IF v_pc = "transcribing" THEN transcribe_handler(e)
                     ELSE write_audio_handler(e)
       IN v_result' = record_and_transcribe_handler(raised)
    /\ fault' = [site |-> v_pc, type |-> "KeyboardInterrupt"]
    /\ q' \in (IF v_pc = "writing" /\ q # <<>> THEN {q, Tail(q)} ELSE {q})
    /\ stream' = "closed"
    /\ v_pc' = "returned"
    /\ UNCHANGED <<max_rms, min_rms, pct, filename, fs, transcription_calls,
                   session, nblocks, captured>>

\* Mutant of OpenSoundFile: mode "w", which truncates a file that exists.
OpenSoundFile_Truncating ==
    /\ v_pc = "opening"
    /\ UNCHANGED vc_vars
    /\ UNCHANGED <<bar, foreign, amplitudes>>
    /\ fs' = [fs EXCEPT ![filename] =
                [exists |-> TRUE, frames |-> <<>>,
                 samplerate |-> SAMPLE_RATE, channels |-> CHANNELS]]
    /\ v_pc' = "writing"
    /\ UNCHANGED <<max_rms, min_rms, pct, q, filename, stream, v_result,
                   transcription_calls, session, nblocks, captured, fault>>

\* sf.SoundFile(filename, mode="x", samplerate=16000, channels=1) creates the file.
OpenSoundFile ==
    /\ v_pc = "opening"
    /\ UNCHANGED vc_vars
    /\ UNCHANGED <<bar, foreign, amplitudes>>
    /\ ~fs[filename].exists
    /\ fs' = [fs EXCEPT ![filename] =
                [exists |-> TRUE, frames |-> <<>>,
                 samplerate |-> SAMPLE_RATE, channels |-> CHANNELS]]
    /\ v_pc' = "writing"
    /\ UNCHANGED <<max_rms, min_rms, pct, q, filename, stream, v_result,
                   transcription_calls, session, nblocks, captured, fault>>

\* sf.SoundFile(filename, mode="x", ...) finds a file at filename: it raises
\* OSError before anything is written and before self.q is read.
OpenSoundFileExists ==
    /\ v_pc = "opening"
    /\ UNCHANGED vc_vars
    /\ UNCHANGED <<bar, foreign, amplitudes>>
    /\ fs[filename].exists
    /\ v_result' = record_and_transcribe_handler(write_audio_handler(Exc("OSError", "none")))
    /\ fault' = [site |-> "opening", type |-> "OSError"]
    /\ v_pc' = "returned"
    /\ UNCHANGED <<max_rms, min_rms, pct, q, filename, stream, fs,
                   transcription_calls, session, nblocks, captured>>

\* Mutant of OpenSoundFileFails: the error is swallowed and the session goes
\* on to the transcription.
OpenSoundFileFails_Swallowed ==
    /\ v_pc = "opening"
    /\ UNCHANGED vc_vars
    /\ UNCHANGED <<bar, foreign, amplitudes>>
    /\ fault' = [site |-> "opening", type |-> "OSError"]
    /\ v_pc' = "transcribing"
    /\ UNCHANGED <<max_rms, min_rms, pct, q, filename, stream, v_result, fs,
                   transcription_calls, session, nblocks, captured>>

\* sf.SoundFile(...) raises: no file is created.
OpenSoundFileFails ==
    /\ v_pc = "opening"
    /\ UNCHANGED vc_vars
    /\ UNCHANGED <<bar, foreign, amplitudes>>
    /\ v_result' = record_and_transcribe_handler(write_audio_handler(Exc("OSError", "none")))
    /\ fault' = [site |-> "opening", type |-> "OSError"]
    /\ v_pc' = "returned"
    /\ UNCHANGED <<max_rms, min_rms, pct, q, filename, stream, fs,
                   transcription_calls, session, nblocks, captured>>

\* while not self.q.empty(): file.write(self.q.get())
WriteBlock ==
    /\ v_pc = "writing"
    /\ UNCHANGED vc_vars
    /\ UNCHANGED <<bar, foreign, amplitudes>>
    /\ q # <<>>
    /\ fs' = [fs EXCEPT ![filename].frames = Append(@, Head(q))]
    /\ q' = Tail(q)
    /\ UNCHANGED <<max_rms, min_rms, pct, v_pc, filename, stream, v_result,
                   transcription_calls, session, nblocks, captured, fault>>

\* file.write raises on the block self.q.get() has just removed; the with
\* block closes the file with what was written before.
WriteBlockFails ==
    /\ v_pc = "writing"
    /\ UNCHANGED vc_vars
    /\ UNCHANGED <<bar, foreign, amplitudes>>
    /\ q # <<>>
    /\ q' = Tail(q)
    /\ v_result' = record_and_transcribe_handler(write_audio_handler(Exc("OSError", "none")))
    /\ fault' = [site |-> "writing", type |-> "OSError"]
    /\ v_pc' = "returned"
    /\ UNCHANGED <<max_rms, min_rms, pct, filename, stream, fs,
                   transcription_calls, session, nblocks, captured>>

\* self.q.empty(): the loop and the with block end, the file is closed.
CloseSoundFile ==
    /\ v_pc = "writing"
    /\ UNCHANGED vc_vars
    /\ UNCHANGED <<bar, foreign, amplitudes>>
    /\ q = <<>>
    /\ v_pc' = "transcribing"
    /\ UNCHANGED <<max_rms, min_rms, pct, q, filename, stream, v_result, fs,
                   transcription_calls, session, nblocks, captured, fault>>

\* open(filename, "rb"); litellm.transcription(...) answers; return transcript.text
Transcribe ==
    /\ v_pc = "transcribing"
    /\ UNCHANGED vc_vars
    /\ UNCHANGED <<bar, foreign, amplitudes>>
    /\ fs[filename].exists
    /\ \E t \in Texts :
          /\ transcription_calls' =
                Append(transcription_calls,
                       [session |-> session, file |-> filename,
                        frames |-> fs[filename].frames, text |-> t])
          /\ v_result' = ReturnedText(t)
    /\ v_pc' = "returned"
    /\ UNCHANGED <<max_rms, min_rms, pct, q, filename, stream, fs, session,
                   nblocks, captured, fault>>

\* open(filename, "rb") raises (OSError, no call is made) or
\* litellm.transcription raises (APIError, the call was made).
TranscribeFails ==
    /\ v_pc = "transcribing"
    /\ UNCHANGED vc_vars
    /\ UNCHANGED <<bar, foreign, amplitudes>>
    /\ \E cause \in {"OSError", "APIError"} :
          /\ transcription_calls' =
                IF cause = "APIError"
                THEN Append(transcription_calls,
                            [session |-> session, file |-> filename,
                             frames |-> fs[filename].frames, text |-> ""])
                ELSE transcription_calls
          /\ v_result' = record_and_transcribe_handler(transcribe_handler(Exc(cause, "none")))
          /\ fault' = [site |-> "transcribing", type |-> cause]
    /\ v_pc' = "returned"
    /\ UNCHANGED <<max_rms, min_rms, pct, q, filename, stream, fs, session,
                   nblocks, captured>>

NextVoice ==
    \/ RecordAndTranscribe
    \/ InputStreamFails
    \/ Callback
    \/ GetPrompt
    \/ StopRecording
    \/ PromptRaises
    \/ KeyboardInterrupt
    \/ ExternalCreate
    \/ OpenSoundFile
    \/ OpenSoundFileExists
    \/ OpenSoundFileFails
    \/ WriteBlock
    \/ WriteBlockFails
    \/ CloseSoundFile
    \/ Transcribe
    \/ TranscribeFails

--------------------------------------------------------------------------
(* The specifications *)

Init == InitVersion /\ InitVoice

\* The calls into versioncheck.py.
SpecVersion == Init /\ [][NextVersion]_vars

\* The sessions of one Voice object.
SpecVoice == Init /\ [][NextVoice]_vars


--------------------------------------------------------------------------
(* versioncheck.py: properties *)

\* The registry answered with a success status and a body holding info.version.
FetchSucceeded ==
    /\ response.kind = "response"
    /\ response.status_code = 200
    /\ HasInfoVersion(response.body)

\* The three ways the fetch fails: the request errors, the status is not a
\* success, the body lacks info.version.
FetchFailed ==
    \/ response.kind = "ConnectionError"
    \/ response.kind = "response" /\ response.status_code # 200
    \/ response.kind = "response" /\ response.status_code = 200
          /\ ~HasInfoVersion(response.body)

FetchFailedWithNetworkError ==
    \/ response.kind = "ConnectionError"
    \/ response.kind = "response" /\ response.status_code # 200

WellFormed(s) == MatchesVersionPattern(s)

\* Version ordering, stated on the text: the i-th numeric component of the
\* release (0 when the release is shorter), compared left to right; with equal
\* components a final release is above a pre-release, and pre-releases order
\* by their number.
RefComponent(s, i) ==
    LET parts == SplitDots(ReleaseText(s))
    IN IF i <= Len(parts) THEN ParseInt(parts[i]) ELSE 0

RefWidth(s) == Len(SplitDots(ReleaseText(s)))

RefIsFinal(s) == \A i \in 1..Len(s) : s[i] # "a"

RefSameRelease(l, c) ==
    \A i \in 1..(RefWidth(l) + RefWidth(c)) : RefComponent(l, i) = RefComponent(c, i)

RefGreater(l, c) ==
    \/ \E i \in 1..(RefWidth(l) + RefWidth(c)) :
          /\ \A j \in 1..(i - 1) : RefComponent(l, j) = RefComponent(c, j)
          /\ RefComponent(l, i) > RefComponent(c, i)
    \/ /\ RefSameRelease(l, c)
       /\ \/ RefIsFinal(l) /\ ~RefIsFinal(c)
          \/ /\ ~RefIsFinal(l)
             /\ ~RefIsFinal(c)
             /\ ParseInt(PreNumberText(l)) > ParseInt(PreNumberText(c))

\* print_cmd was called once, with the two-line upgrade notice.
NoticePrinted ==
    /\ Len(printed) = 1
    /\ Len(printed[1]) = 2
    /\ printed[1][1] =
          <<"Newer version v">> \o latest_version \o <<" is available. To upgrade, run:">>
    /\ printed[1][2] = upgrade_command

\* C1: when the fetch fails with the network error (RuntimeError) or a
\* version string fails to parse (ValueError), check_for_updates returns False,
\* has called print_cmd exactly once, with the error, and raises nothing.
C1_FailureReportedNotRaised ==
    (vc_pc = "done" /\ vc_result # "none" /\
        (FetchFailedWithNetworkError
            \/ (FetchSucceeded /\ (~WellFormed(latest_version) \/ ~WellFormed(current_version)))))
    => /\ vc_result = "False"
       /\ vc_exc = NoExc
       /\ Len(printed) = 1
       /\ Len(printed[1]) = 1
       /\ printed[1][1][1] = (IF FetchSucceeded THEN "ValueError" ELSE "RuntimeError")

C1_Witness ==
    /\ vc_pc = "done"
    /\ FetchSucceeded
    /\ WellFormed(latest_version)
    /\ ~WellFormed(current_version)
    /\ vc_result = "False"
    /\ Len(printed) = 1

\* C2: check_for_updates returns True exactly when the fetch succeeded, latest
\* is strictly greater than current and the notice went through print_cmd; the
\* notice is one call of exactly two lines; with latest <= current it returns
\* False and print_cmd is never called.
C2_TrueIffUpdateReported ==
    (vc_pc = "done" /\ vc_result # "none")
    => /\ vc_result = "True" <=>
            /\ FetchSucceeded
            /\ WellFormed(latest_version)
            /\ WellFormed(current_version)
            /\ RefGreater(latest_version, current_version)
            /\ NoticePrinted
       /\ (FetchSucceeded /\ WellFormed(latest_version) /\ WellFormed(current_version)
              /\ ~RefGreater(latest_version, current_version))
          => (vc_result = "False" /\ printed = <<>>)

C2_Witness ==
    /\ vc_pc = "done"
    /\ vc_result = "True"
    /\ NoticePrinted
    /\ latest_version = <<"1", ".", "1">>
    /\ current_version = <<"1", ".", "0">>

\* C3: in each of the three failure cases of the fetch the exception raised
\* is the network error (RuntimeError), so check_for_updates reports it and
\* returns False.
C3_EveryFetchFailureIsNetworkError ==
    (vc_pc \in {"except", "done"} /\ FetchFailed)
    => /\ vc_pc = "except" => vc_exc.type = "RuntimeError"
       /\ vc_pc = "done" => (vc_result = "False" /\ Len(printed) = 1)

\* C4: for well-formed latest and current, is_update_available returns True
\* exactly when latest is strictly greater under version ordering, False
\* otherwise, and exactly one of latest > current, latest = current,
\* latest < current holds in the ordering it uses.
C4_TrueIffStrictlyGreater ==
    (vc_pc \in {"print", "return_false", "except"} /\ FetchSucceeded
        /\ WellFormed(latest_version) /\ WellFormed(current_version))
    => /\ update_available \in {"True", "False"}
       /\ update_available = "True" <=> RefGreater(latest_version, current_version)
       /\ LET gt == is_update_available(latest_version, current_version).value
              lt == is_update_available(current_version, latest_version).value
              eq == parse_version(latest_version).value = parse_version(current_version).value
          IN /\ gt \/ eq \/ lt
             /\ ~(gt /\ eq)
             /\ ~(gt /\ lt)
             /\ ~(eq /\ lt)
             /\ gt <=> update_available = "True"

C4_Witness ==
    /\ vc_pc = "print"
    /\ update_available = "True"
    /\ latest_version = <<"1", "0">>
    /\ current_version = <<"1", ".", "1">>

\* C5: is_update_available raises ValueError, and returns neither True nor
\* False, whenever latest or current is malformed, whatever the other is.
C5_MalformedRaisesValueError ==
    (vc_pc \in {"print", "return_false", "except"} /\ FetchSucceeded
        /\ (~WellFormed(latest_version) \/ ~WellFormed(current_version)))
    => /\ vc_pc = "except"
       /\ vc_exc.type = "ValueError"
       /\ update_available = "unset"

C5_Witness ==
    /\ vc_pc = "except"
    /\ FetchSucceeded
    /\ WellFormed(latest_version)
    /\ ~WellFormed(current_version)
    /\ vc_exc.type = "ValueError"

\* The executable path has the four characters "pipx" somewhere in it.
HasMarker(exe) ==
    \E i \in 1..(Len(exe) - 3) :
        exe[i] = "p" /\ exe[i + 1] = "i" /\ exe[i + 2] = "p" /\ exe[i + 3] = "x"

\* C6: construct_upgrade_command returns exactly "pipx upgrade aider-chat"
\* when sys.executable contains "pipx", and exactly
\* "<sys.executable> -m pip install --upgrade aider-chat" otherwise.
C6_UpgradeCommand ==
    (vc_pc = "done_command" \/ vc_result = "True")
    => upgrade_command =
          (IF HasMarker(py) THEN <<"pipx upgrade aider-chat">>
           ELSE py \o <<" -m pip install --upgrade aider-chat">>)

C6_Witness ==
    /\ vc_pc = "done_command"
    /\ py = <<"x", "p", "i", "p", "x">>
    /\ upgrade_command = <<"pipx upgrade aider-chat">>

--------------------------------------------------------------------------
(* voice.py: properties *)

\* The state of the session, read off the position of the call and its outcome.
SessionState ==
    IF v_pc = "idle" THEN "Idle"
    ELSE IF v_pc = "recording" THEN "Recording"
    ELSE IF v_pc \in {"opening", "writing"} THEN "Draining"
    ELSE IF v_pc = "transcribing" THEN "Transcribing"
    ELSE IF v_result.kind = "text" THEN "Done"
    ELSE IF v_result.kind = "raised" THEN "Failed"
    ELSE "Cancelled"

\* litellm.transcription was called during this session.
TranscriptionCalled ==
    \E i \in 1..Len(transcription_calls) : transcription_calls[i].session = session

\* The session ended by a KeyboardInterrupt that arrived while the stream was
\* open and the foreground waited in prompt.
CancelledWhileRecording ==
    /\ v_pc = "returned"
    /\ fault = [site |-> "recording", type |-> "KeyboardInterrupt"]

\* _write_audio_to_file ran to its end in this session.
FileWritten ==
    \/ v_pc = "transcribing"
    \/ v_pc = "returned" /\ fault.site \in {"none", "transcribing"}

\* C7: a KeyboardInterrupt during Recording makes record_and_transcribe
\* return None and raise nothing; no WAV file was written and
\* litellm.transcription was not called.
C7_InterruptWhileRecordingReturnsNone ==
    CancelledWhileRecording
    => /\ v_result = ReturnedNone
       /\ stream = "closed"
       /\ ~fs[filename].exists \/ filename \in foreign
       /\ ~TranscriptionCalled

C7_Witness ==
    /\ CancelledWhileRecording
    /\ captured # <<>>
    /\ v_result.kind = "None"

\* C8: once the session's WAV file is written, and once the session is
\* cancelled by a KeyboardInterrupt, the sample queue is empty; so the file a
\* session writes holds only blocks captured during that session.
C8_QueueEmptyAfterSession ==
    /\ FileWritten => q = <<>>
    /\ CancelledWhileRecording => q = <<>>
    /\ v_pc \in {"writing", "transcribing", "returned"} /\ fs[filename].exists
          => \A i \in 1..Len(fs[filename].frames) :
                \E j \in 1..Len(captured) : captured[j] = fs[filename].frames[i]

\* C9: an exception raised by the WAV write or by the transcription ends
\* the session in Failed and reaches the caller as SoundDeviceError wrapping
\* the cause, never as None or as text; a transcription that succeeds ends the
\* session in Done and returns the text the service recognized.
C9_FailureRaisedSuccessReturnsText ==
    v_pc = "returned"
    => /\ (fault.site \in {"opening", "writing", "transcribing"}
              /\ fault.type # "KeyboardInterrupt")
          => /\ SessionState = "Failed"
             /\ v_result.kind = "raised"
             /\ v_result.exc = Exc("SoundDeviceError", fault.type)
       /\ fault = NoFault
          => /\ SessionState = "Done"
             /\ TranscriptionCalled
             /\ v_result = ReturnedText(transcription_calls[Len(transcription_calls)].text)
       /\ v_result.kind = "text" => fault = NoFault

C9_Witness ==
    /\ v_pc = "returned"
    /\ fault = [site |-> "writing", type |-> "OSError"]
    /\ v_result.kind = "raised"
    /\ v_result.exc.type = "SoundDeviceError"

\* C10: a session in which the callback captured no block completes
\* _write_audio_to_file without error, the file written is a zero-frame
\* single-channel 16 kHz WAV file, and the session goes on to transcription.
C10_EmptySessionWritesEmptyFile ==
    captured = <<>>
    => /\ ~(fault.site = "writing" /\ fault.type # "KeyboardInterrupt")
       /\ v_pc = "writing" => fs[filename].frames = <<>>
       /\ FileWritten
          => fs[filename] = [exists |-> TRUE, frames |-> <<>>,
                             samplerate |-> 16000, channels |-> 1]

\* The same for the first session of a Voice object, whose queue starts
\* empty: there it holds.
EmptyFirstSessionWritesEmptyFile ==
    session = 1 => C10_EmptySessionWritesEmptyFile

\* The rms of the block the callback handled last in this session.
LastRms == amplitudes[Len(amplitudes)]

\* C11: after every run of the callback pct lies in [0, 1]: it is
\* (rms - min) / (max - min) when max - min exceeds 0.001 and the neutral 0.5
\* otherwise, so that no division by a zero range occurs and pct is a number.
C11_PctInUnitInterval ==
    captured # <<>>
    => LET rms == LastRms
           rng == max_rms - min_rms
       IN /\ pct.den > 0
          /\ 0 <= pct.num /\ pct.num <= pct.den
          /\ rng > EPSILON => pct.num * rng = (rms - min_rms) * pct.den
          /\ rng <= EPSILON => pct.num * 2 = pct.den

\* The same for a block whose amplitude is a number: there it holds.
PctInUnitIntervalForNumbers ==
    captured # <<>> /\ LastRms # NAN => C11_PctInUnitInterval

\* s is the last Len(s) elements of t.
IsSuffix(s, t) ==
    /\ Len(s) <= Len(t)
    /\ \A i \in 1..Len(s) : s[i] = t[Len(t) - Len(s) + i]

\* C12: once recording is stopped and _write_audio_to_file has run to its
\* end, the sequence of blocks in the WAV file is the sequence of blocks the
\* callback put during the session: each once, in arrival order.
C12_FileHoldsSessionBlocksInOrder ==
    FileWritten => fs[filename].frames = captured

\* What holds instead: the file ends with the session's blocks in arrival
\* order, after whatever the queue held when the session began.
FileEndsWithSessionBlocks ==
    /\ FileWritten => IsSuffix(captured, fs[filename].frames)
    /\ v_pc = "writing" => IsSuffix(captured, fs[filename].frames \o q)

\* C13: the foreground thread takes a block off the queue, and finds the
\* queue empty, only while the input stream is closed, when no callback can
\* put: no get or emptiness test is interleaved with a put.
C13_NoConsumerWhileStreamOpen ==
    [][(\/ Len(q') < Len(q)
        \/ v_pc = "writing" /\ v_pc' # "writing")
       => stream = "closed" /\ stream' = "closed"]_vars

C13_Witness ==
    /\ v_pc = "writing"
    /\ stream = "closed"
    /\ fs[filename].frames # <<>>
    /\ q # <<>>

\* The order of the states of one session, a write failure going from
\* Draining to Failed.
InOrder(a, b) ==
    \/ a = "Recording" /\ b = "Draining"
    \/ a = "Draining" /\ b \in {"Transcribing", "Failed"}
    \/ a = "Transcribing" /\ b \in {"Done", "Failed"}

\* This step calls litellm.transcription.
TranscriptionCallStep ==
    Len(transcription_calls') > Len(transcription_calls)

\* _write_audio_to_file has created the session's file, emptied the queue
\* into it and raised nothing.
WriteCompleted ==
    /\ fs[filename].exists
    /\ filename \notin foreign
    /\ q = <<>>
    /\ fault = NoFault

\* This step is the WAV write raising an error.
WriteFailureStep ==
    /\ fault = NoFault
    /\ fault'.site \in {"opening", "writing"}
    /\ fault'.type # "KeyboardInterrupt"

\* Transcription comes only after a completed write, and a write failure
\* ends the session in Failed with no transcription call.
TranscriptionOnlyAfterWrite ==
    /\ TranscriptionCallStep => SessionState = "Transcribing" /\ WriteCompleted
    /\ WriteFailureStep => SessionState' = "Failed" /\ ~TranscriptionCalled'

\* C14: every session follows the order Idle, Recording, Draining,
\* Transcribing, then Done or Failed: no state is skipped or revisited, the
\* transcription call is made only after the WAV write completed (a write
\* failure goes to Failed with no transcription call), and nothing further
\* happens in a session that reached Done or Failed.
C14_SessionFollowsStateOrder ==
    [][/\ session' # session => SessionState' = "Recording"
       /\ (session' = session /\ SessionState' # SessionState)
             => InOrder(SessionState, SessionState')
       /\ TranscriptionOnlyAfterWrite
       /\ (session' = session /\ SessionState \in {"Done", "Failed"})
             => UNCHANGED voice_vars]_vars

\* C14 as it holds: the order is followed until the session ends or is cut
\* short.  A KeyboardInterrupt in Recording, Draining or Transcribing ends
\* the session cancelled; an error raised by sd.InputStream or by prompt
\* ends it in Failed before Draining.  Cancelled is terminal as well.
C14_SessionFollowsStateOrderOrIsCutShort ==
    [][/\ session' # session
             => \/ SessionState' = "Recording"
                \/ SessionState' = "Failed" /\ fault'.site = "starting"
       /\ (session' = session /\ SessionState' # SessionState)
             => \/ InOrder(SessionState, SessionState')
                \/ /\ SessionState = "Recording"
                   /\ SessionState' = "Failed"
                   /\ fault'.site = "recording"
                \/ /\ SessionState \in {"Recording", "Draining", "Transcribing"}
                   /\ SessionState' = "Cancelled"
                   /\ fault'.type = "KeyboardInterrupt"
       /\ TranscriptionOnlyAfterWrite
       /\ (session' = session /\ SessionState \in {"Done", "Failed", "Cancelled"})
             => UNCHANGED voice_vars]_vars

C14_Witness ==
    /\ session = 2
    /\ SessionState = "Done"
    /\ TranscriptionCalled
    /\ fs[filename].frames = captured
    /\ Len(captured) = 2

\* C15: a cancellation is honored only while the foreground waits in the
\* prompt: a KeyboardInterrupt during the WAV write or the transcription
\* upload does not cancel the session, its outcome is not None.
C15_InterruptHonoredOnlyWhileRecording ==
    (v_pc = "returned" /\ fault.type = "KeyboardInterrupt")
    => (v_result.kind = "None" <=> fault.site = "recording")

\* C16: the callback never raises and never aborts the capture: when the
\* level computation of a block fails, pct takes the neutral 0.5 and the
\* block is still put, so every block delivered during Recording is queued.
C16_CallbackDegradesToNeutral ==
    /\ fault.site # "callback"
    /\ v_pc = "recording" => IsSuffix(captured, q)
    /\ (captured # <<>> /\ LastRms = NAN) => pct = Neutral

\* The part that holds: the callback puts every block it is given.
EveryDeliveredBlockIsQueued ==
    /\ fault.site # "callback"
    /\ v_pc = "recording" => IsSuffix(captured, q)

\* The amplitudes, those that are numbers, of the blocks of this session.
SessionAmplitudes == {amplitudes[i] : i \in 1..Len(amplitudes)} \ {NAN}
SessionMax == CHOOSE a \in SessionAmplitudes : \A b \in SessionAmplitudes : b <= a
SessionMin == CHOOSE a \in SessionAmplitudes : \A b \in SessionAmplitudes : a <= b

\* C17: the running minimum and maximum are those of the session: after
\* each callback they are the least and the greatest RMS of the blocks
\* captured so far in the current session, and pct is computed from them,
\* whatever earlier sessions of the same Voice object captured.
C17_MinMaxArePerSession ==
    SessionAmplitudes # {}
    => /\ max_rms = SessionMax
       /\ min_rms = SessionMin
       /\ LastRms # NAN
             => pct = level(LastRms, SessionMin, SessionMax - SessionMin)

\* The same for the first session of a Voice object: there it holds.
MinMaxOfFirstSession ==
    session = 1 => C17_MinMaxArePerSession

\* The number of level segments of a bar, and its shape: ten segments, the
\* level segments first.
BarLevel(b) == Cardinality({i \in 1..Len(b) : b[i] = "light"})
TenSegments(b) ==
    /\ Len(b) = 10
    /\ \A i \in 1..Len(b) : b[i] = (IF i <= BarLevel(b) THEN "light" ELSE "full")

\* floor(p * 10) for a fraction p in [0, 1].
FloorTenths(p) ==
    CHOOSE k \in 0..10 : k * p.den <= 10 * p.num /\ 10 * p.num < (k + 1) * p.den

\* This step is prompt redrawing: get_prompt returns a new text.
GetPromptStep ==
    /\ v_pc = "recording" /\ v_pc' = "recording"
    /\ nblocks' = nblocks
    /\ fs' = fs

\* C18: the bar get_prompt returns has exactly 10 segments and shows pct only
\* once pct exceeds the threshold 0.15: for pct at or below the threshold,
\* and for a pct that is nan, there are 0 level segments; above it there are
\* floor(pct * 10) of them, between 1 and 10.
C18_BarShowsLevelAboveThreshold ==
    [][GetPromptStep
       => /\ TenSegments(bar')
          /\ BarLevel(bar') =
                (IF isnan(pct) \/ pct.num * 1000 <= THRESHOLD * pct.den
                 THEN 0 ELSE FloorTenths(pct))
          /\ (~isnan(pct) /\ pct.num * 1000 > THRESHOLD * pct.den)
                => BarLevel(bar') \in 1..10]_vars

\* C18 as it holds: the level is shown from the threshold on, pct = 0.15
\* included; below it, and for nan, there are 0 level segments.
C18_BarShowsLevelFromThreshold ==
    [][GetPromptStep
       => /\ TenSegments(bar')
          /\ BarLevel(bar') =
                (IF isnan(pct) \/ pct.num * 1000 < THRESHOLD * pct.den
                 THEN 0 ELSE FloorTenths(pct))
          /\ (~isnan(pct) /\ pct.num * 1000 >= THRESHOLD * pct.den)
                => BarLevel(bar') \in 1..10]_vars

C18_Witness ==
    /\ v_pc = "recording"
    /\ pct = [num |-> 150, den |-> 1000]
    /\ TenSegments(bar)
    /\ BarLevel(bar) = 1

\* C19: the input stream is open exactly while the foreground waits in the
\* prompt and is closed on every way out of it; the callback puts a block
\* only then, never while the file is written or uploaded and never after
\* record_and_transcribe has returned or raised.
C19_StreamOpenExactlyWhileRecording ==
    /\ [](stream = "open" <=> v_pc = "recording")
    /\ [][Len(q') > Len(q) => v_pc = "recording" /\ v_pc' = "recording"]_vars

C19_Witness ==
    /\ v_pc = "returned"
    /\ stream = "closed"
    /\ fault = [site |-> "recording", type |-> "EOFError"]
    /\ captured # <<>>
    /\ session = 2

\* C20: _write_audio_to_file creates its file exclusively.  When a file
\* exists at the temporary name, the write fails with SoundDeviceError, the
\* file is left as it was, no block is taken off the queue and no
\* transcription is attempted; no step changes a file that another process
\* or an earlier session created.
C20_FileCreatedExclusively ==
    [][/\ (/\ v_pc = "opening" /\ v_pc' # "opening"
            /\ fs[filename].exists
            /\ fault'.type # "KeyboardInterrupt")
          => /\ v_pc' = "returned"
             /\ v_result'.kind = "raised"
             /\ v_result'.exc.type = "SoundDeviceError"
             /\ fs' = fs
             /\ q' = q
             /\ transcription_calls' = transcription_calls
       /\ \A f \in FileNames :
             (fs[f].exists /\ (f \in foreign \/ f # filename)) => fs'[f] = fs[f]]_vars

C20_Witness ==
    /\ v_pc = "returned"
    /\ fault.site = "opening"
    /\ filename \in foreign
    /\ fs[filename] = ForeignFile
    /\ v_result.kind = "raised"
    /\ q # <<>>
    /\ ~TranscriptionCalled

====
